---- MODULE Spec2Model ----
(***************************************************************************)
(* A model of gemini_api_integrate_in_project.py: the GeminiAPIClient      *)
(* facade (constructor and generate_content), the demonstration main(),    *)
(* and the two collaborators the code talks to: the process environment    *)
(* (os.environ) and the vendor SDK (genai.configure, genai.GenerativeModel,*)
(* model.generate_content, response.raise_for_status, response.text).      *)
(* The vendor SDK is a stub: every call of it either returns or raises,    *)
(* and which of the two is an input of the model. Lines 1-140 of the file  *)
(* are the program; lines 141-175 are prose that follows it and are not    *)
(* modelled.                                                               *)
(***************************************************************************)
EXTENDS Naturals, Sequences, FiniteSets, TLC

\* ------------------------------------------------------------------ bounds

\* The number of facades that may be alive at once.
MaxClients == 2

\* ------------------------------------------------------------ Python values

\* Python's None.
None == "<None>"

\* A credential with an embedded NUL character: a non-empty str that
\* os.environ refuses (putenv raises ValueError: embedded null byte).
NulKey == "key<NUL>"

\* The credentials a caller may pass: None, the empty string, two ordinary
\* keys and one the environment refuses.
ApiKeys == {None, "", "key-A", "key-B", NulKey}

\* model_name: the default of __init__ and one other model.
DefaultModel == "gemini-1.5-pro-latest"

ModelNames == {DefaultModel, "gemini-1.5-flash"}

\* The prompts of main() (lines 114 and 127).
CatPrompt == "Write a short poem about a cat."

HamletPrompt == "Summarize the plot of Hamlet in 5 sentences."

\* generation_config of main() (lines 120-125), an opaque mapping.
MainGenerationConfig == "temperature=0.9,top_p=1,top_k=1,max_output_tokens=200"

\* generation_config: None or a mapping.
GenerationConfigs == {None, MainGenerationConfig}

\* safety_settings: None or a mapping (one threshold).
SafetySettings == {None, "HARM_CATEGORY_HARASSMENT=BLOCK_NONE"}

\* The sentinel generate_content returns for an empty response.
Sentinel == "No content generated."

\* Python truthiness of an Optional[str]: `not v` is true of None and "".
Truthy(v) == v # None /\ v # ""

\* -------------------------------------------------------------- exceptions

\* The exception classes the stub SDK raises: the provider-level
\* GoogleAPIError, and AttributeError for any other Exception subclass.
VendorErrors == {"GoogleAPIError", "AttributeError"}

\* isinstance(e, cls) for the classes the code's except clauses name.
IsInstance(type, cls) ==
    \/ type = cls
    \/ cls = "Exception"
       /\ type \in {"GoogleAPIError", "AttributeError", "ValueError", "GeminiAPIError"}

NoCause == [type |-> None, msg |-> None]

\* No exception: the call returned.
NoExc == [type |-> None, msg |-> None, cause |-> NoCause]

\* An exception raised without `from`.
Exc(type, msg) == [type |-> type, msg |-> msg, cause |-> NoCause]

\* raise GeminiAPIError(f"{prefix}{e}") from e
GeminiAPIError(prefix, e) ==
    [type |-> "GeminiAPIError", msg |-> prefix \o e.msg,
     cause |-> [type |-> e.type, msg |-> e.msg]]

\* ------------------------------------------------------------ construction

\* A facade that was not built (the constructor raised).
NoClient == [api_key |-> None, model |-> None]

\* os.environ[name] = value raises ValueError for a value with a NUL in it
\* and leaves the environment as it was.
EnvAccepts(value) == value # NulKey

\* What the SDK may do in one construction: genai.configure returns (None) or
\* raises, having stored the key or not; if it returns, it has stored the key
\* and genai.GenerativeModel returns or raises.
SdkOutcomes ==
    {[configure |-> None, stored |-> TRUE, GenerativeModel |-> None]}
    \cup {[configure |-> e, stored |-> b, GenerativeModel |-> None] :
              e \in VendorErrors, b \in BOOLEAN}
    \cup {[configure |-> None, stored |-> TRUE, GenerativeModel |-> e] :
              e \in VendorErrors}

\* The outcome of __init__ when it raises `exc` after the SDK calls `events`.
InitRaises(exc, os_environ, genai_key, events) ==
    [exc |-> exc, self |-> NoClient, os_environ |-> os_environ,
     genai_key |-> genai_key, events |-> events]

\* `if not api_key` (line 57).
\* Variant: `if api_key is None`, which lets the empty string through.
MutRejectsNoneOnly(api_key) == api_key = None

InvalidApiKey(api_key) == ~Truthy(api_key)

\* os.environ["GOOGLE_API_KEY"] = self.api_key (line 61), for a value the
\* environment accepts.
\* Variant: os.environ.setdefault, which keeps a credential already set.
MutSetDefault(os_environ, api_key) ==
    IF os_environ.GOOGLE_API_KEY = None
    THEN [os_environ EXCEPT !.GOOGLE_API_KEY = api_key]
    ELSE os_environ

SetEnviron(os_environ, api_key) == [os_environ EXCEPT !.GOOGLE_API_KEY = api_key]

\* GeminiAPIClient(api_key, model_name), lines 57-66. `genai_key` is the key
\* the SDK holds when the call starts and `genai` what the SDK will do in it.
\* The result is the exception raised (NoExc when the facade is returned),
\* the facade, the environment and the SDK's key after the call, and the SDK
\* calls made, in order.
GeminiAPIClient(api_key, model_name, os_environ, genai_key, genai) ==
    IF InvalidApiKey(api_key)
    THEN \* lines 57-58
         InitRaises(Exc("ValueError", "API key cannot be empty or None."),
                    os_environ, genai_key, <<>>)
    ELSE IF ~EnvAccepts(api_key)
    THEN \* line 61 raises ValueError
         InitRaises(Exc("ValueError", "embedded null byte"),
                    os_environ, genai_key, <<>>)
    ELSE LET env1 == SetEnviron(os_environ, api_key) IN
         IF genai.configure # None
         THEN \* line 62, outside the try: the exception propagates as it is
              InitRaises(Exc(genai.configure, "configure failed"), env1,
                         IF genai.stored THEN api_key ELSE genai_key,
                         <<"configure">>)
         ELSE IF genai.GenerativeModel # None
                  /\ IsInstance(genai.GenerativeModel, "Exception")
         THEN \* lines 63-66
              InitRaises(GeminiAPIError("Failed to initialize model: ",
                                        Exc(genai.GenerativeModel,
                                            "GenerativeModel failed")),
                         env1, api_key, <<"configure", "GenerativeModel">>)
         ELSE [exc |-> NoExc,
               self |-> [api_key |-> api_key, model |-> model_name],
               os_environ |-> env1, genai_key |-> api_key,
               events |-> <<"configure", "GenerativeModel">>]

\* -------------------------------------------------------- generate_content

\* What the stub model does with one request: generate_content returns or
\* raises; if it returns, response.raise_for_status() returns or raises; if
\* that returns, reading response.text raises or yields a text. A field is
\* None when that step does not raise.
Response(call, status, text_raises, text) ==
    [call |-> call, status |-> status, text_raises |-> text_raises, text |-> text]

\* The stub model: a deterministic function of the prompt, with one prompt
\* for each thing a request can do. main()'s first prompt yields a poem and
\* its second an empty text.
StubModel ==
    [p \in {"call raises GoogleAPIError"} |-> Response("GoogleAPIError", None, None, None)]
    @@ [p \in {"call raises AttributeError"} |-> Response("AttributeError", None, None, None)]
    @@ [p \in {"status raises GoogleAPIError"} |-> Response(None, "GoogleAPIError", None, None)]
    @@ [p \in {"status raises AttributeError"} |-> Response(None, "AttributeError", None, None)]
    @@ [p \in {"text raises GoogleAPIError"} |-> Response(None, None, "GoogleAPIError", None)]
    @@ [p \in {"text raises AttributeError"} |-> Response(None, None, "AttributeError", None)]
    @@ [p \in {"text is None"} |-> Response(None, None, None, None)]
    @@ [p \in {"text is the sentinel"} |-> Response(None, None, None, Sentinel)]
    @@ [p \in {CatPrompt} |-> Response(None, None, None, "Soft paws at midnight.")]
    @@ [p \in {HamletPrompt} |-> Response(None, None, None, "")]

Prompts == DOMAIN StubModel

\* The arguments self.model.generate_content receives (line 87).
\* Variant: safety_settings is not passed on.
MutDropsSafetySettings(prompt, generation_config, safety_settings) ==
    <<prompt, generation_config, None>>

DelegatedArguments(prompt, generation_config, safety_settings) ==
    <<prompt, generation_config, safety_settings>>

\* Lines 90-93: the text if it is truthy, the sentinel otherwise.
\* Variant: `if response.text is not None`, which returns an empty text.
MutTextIsNotNone(text) == IF text # None THEN text ELSE Sentinel

TextOrSentinel(text) == IF Truthy(text) THEN text ELSE Sentinel

\* The outcome of the try block: what it returns or the exception that
\* leaves it, and the calls made on the stub, in order.
TryOutcome(value, exc, events) == [value |-> value, exc |-> exc, events |-> events]

\* Lines 87-93, the body of the try block, against the response `r`.
\* Variant: the try block without line 88.
MutSkipsStatusCheck(r) ==
    IF r.call # None
    THEN TryOutcome(None, Exc(r.call, "generate_content failed"),
                    <<"generate_content">>)
    ELSE IF r.text_raises # None
    THEN TryOutcome(None, Exc(r.text_raises, "text failed"),
                    <<"generate_content", "text">>)
    ELSE TryOutcome(TextOrSentinel(r.text), NoExc,
                    <<"generate_content", "text">>
                    \o (IF Truthy(r.text) THEN <<"text">> ELSE <<>>))

TryBlock(r) ==
    IF r.call # None
    THEN \* line 87 raises
         TryOutcome(None, Exc(r.call, "generate_content failed"),
                    <<"generate_content">>)
    ELSE IF r.status # None
    THEN \* line 88 raises
         TryOutcome(None, Exc(r.status, "raise_for_status failed"),
                    <<"generate_content", "raise_for_status">>)
    ELSE IF r.text_raises # None
    THEN \* line 90 raises
         TryOutcome(None, Exc(r.text_raises, "text failed"),
                    <<"generate_content", "raise_for_status", "text">>)
    ELSE \* lines 90-93; a truthy response.text is read a second time
         TryOutcome(TextOrSentinel(r.text), NoExc,
                    <<"generate_content", "raise_for_status", "text">>
                    \o (IF Truthy(r.text) THEN <<"text">> ELSE <<>>))

\* Lines 95-98, the except clauses: the exception that leaves
\* generate_content when `e` left the try block.
\* Variant: the except clauses without lines 97-98.
MutNoCatchAll(e) ==
    IF IsInstance(e.type, "GoogleAPIError")
    THEN GeminiAPIError("Gemini API error: ", e)
    ELSE e

ExceptClauses(e) ==
    IF IsInstance(e.type, "GoogleAPIError")
    THEN GeminiAPIError("Gemini API error: ", e)
    ELSE IF IsInstance(e.type, "Exception")
    THEN GeminiAPIError("Unexpected error during content generation: ", e)
    ELSE e

\* self.generate_content(prompt, generation_config, safety_settings), lines
\* 86-98, against the stub `model_generate_content`, a function from the
\* prompt to what the stub does with it. The result is the value returned
\* (None when it raises), the exception raised (NoExc when it returns), the
\* facade after the call (no attribute is assigned), the arguments the stub
\* received and the calls made on the stub.
\* Variant: a generate_content that drops self.model when it fails.
MutForgetsModelOnError(self, prompt, generation_config, safety_settings, model_generate_content) ==
    LET received == DelegatedArguments(prompt, generation_config, safety_settings)
        t == IF self.model = None
             THEN \* None has no attribute generate_content
                  TryOutcome(None, Exc("AttributeError", "no generate_content"), <<>>)
             ELSE TryBlock(model_generate_content[received[1]])
        exc == IF t.exc = NoExc THEN NoExc ELSE ExceptClauses(t.exc)
    IN  [value |-> t.value, exc |-> exc,
         self |-> IF exc = NoExc THEN self ELSE [self EXCEPT !.model = None],
         received |-> received, events |-> t.events]

generate_content(self, prompt, generation_config, safety_settings, model_generate_content) ==
    LET received == DelegatedArguments(prompt, generation_config, safety_settings)
        t == IF self.model = None
             THEN \* None has no attribute generate_content
                  TryOutcome(None, Exc("AttributeError", "no generate_content"), <<>>)
             ELSE TryBlock(model_generate_content[received[1]])
        exc == IF t.exc = NoExc THEN NoExc ELSE ExceptClauses(t.exc)
    IN  [value |-> t.value, exc |-> exc, self |-> self,
         received |-> received, events |-> t.events]

\* --------------------------------------------------------------------- main

\* The except clauses of main(), lines 131-136: the line printed for `e`.
MainExcept(e) ==
    IF IsInstance(e.type, "GeminiAPIError") THEN "Error: " \o e.msg
    ELSE IF IsInstance(e.type, "ValueError") THEN "Error: " \o e.msg
    ELSE "An unexpected error occurred: " \o e.msg

MissingKeyDiagnostic == "Error: Gemini API key not found in environment variable 'GEMINI_API_KEY'. Please set the environment variable and try again."

\* The outcome of main(): the lines printed, the exit status of the process
\* (main returns normally on every path and line 140 passes nothing to
\* sys.exit, so the interpreter ends with status 0), the environment and the
\* SDK's key afterwards, and the SDK calls made.
MainOutcome(stdout, os_environ, genai_key, events) ==
    [stdout |-> stdout, exit |-> 0, os_environ |-> os_environ,
     genai_key |-> genai_key, events |-> events]

\* main(), lines 101-136, run as the script (lines 139-140).
main(os_environ, genai_key, genai, model_generate_content) ==
    LET api_key == os_environ.GEMINI_API_KEY IN
    IF ~Truthy(api_key)
    THEN \* lines 108-110
         MainOutcome(<<MissingKeyDiagnostic>>, os_environ, genai_key, <<>>)
    ELSE
    LET c == GeminiAPIClient(api_key, DefaultModel, os_environ, genai_key, genai) IN
    IF c.exc # NoExc
    THEN MainOutcome(<<MainExcept(c.exc)>>, c.os_environ, c.genai_key, c.events)
    ELSE
    LET g1 == generate_content(c.self, CatPrompt, None, None, model_generate_content)
        out1 == <<"Prompt: " \o CatPrompt>>
    IN
    IF g1.exc # NoExc
    THEN MainOutcome(out1 \o <<MainExcept(g1.exc)>>, c.os_environ, c.genai_key,
                     c.events \o g1.events)
    ELSE
    LET g2 == generate_content(g1.self, HamletPrompt, MainGenerationConfig, None,
                               model_generate_content)
        out2 == out1 \o <<"Response: " \o g1.value,
                          "Example with Generation Configuration:">>
    IN
    MainOutcome(out2 \o <<IF g2.exc # NoExc THEN MainExcept(g2.exc)
                          ELSE "Response: " \o g2.value>>,
                c.os_environ, c.genai_key,
                c.events \o g1.events \o g2.events)

\* -------------------------------------------------------------------- state

VARIABLES
    os_environ,   \* the process environment: GOOGLE_API_KEY, GEMINI_API_KEY
    genai_key,    \* the key the SDK holds (genai.configure), None before any
    clients,      \* the facades alive: a set of [api_key, model]
    last          \* the last operation: its arguments and its outcome

vars == <<os_environ, genai_key, clients, last>>

NoCall == [op |-> "none"]

\* A fresh process: no facade, nothing configured, GOOGLE_API_KEY absent
\* (None), and GEMINI_API_KEY absent, empty or set.
Init ==
    /\ \E k \in {None, "", "key-A"} :
           os_environ = [GOOGLE_API_KEY |-> None, GEMINI_API_KEY |-> k]
    /\ genai_key = None
    /\ clients = {}
    /\ last = NoCall

\* client = GeminiAPIClient(api_key, model_name), with the SDK doing `genai`.
Construct(api_key, model_name, genai) ==
    LET c == GeminiAPIClient(api_key, model_name, os_environ, genai_key, genai)
    IN  /\ c.exc # NoExc \/ Cardinality(clients \cup {c.self}) <= MaxClients
        /\ os_environ' = c.os_environ
        /\ genai_key' = c.genai_key
        /\ clients' = IF c.exc = NoExc THEN clients \cup {c.self} ELSE clients
        /\ last' = [op |-> "init", api_key |-> api_key, model_name |-> model_name,
                    genai |-> genai, exc |-> c.exc, self |-> c.self,
                    events |-> c.events]

\* client.generate_content(prompt, generation_config, safety_settings).
GenerateContent(client, prompt, generation_config, safety_settings) ==
    LET g == generate_content(client, prompt, generation_config,
                              safety_settings, StubModel)
    IN  /\ clients' = (clients \ {client}) \cup {g.self}
        /\ last' = [op |-> "generate", self |-> client, prompt |-> prompt,
                    generation_config |-> generation_config,
                    safety_settings |-> safety_settings,
                    value |-> g.value, exc |-> g.exc, received |-> g.received,
                    events |-> g.events]
        /\ UNCHANGED <<os_environ, genai_key>>

\* The script is run: main().
Main(genai) ==
    LET m == main(os_environ, genai_key, genai, StubModel)
    IN  /\ os_environ' = m.os_environ
        /\ genai_key' = m.genai_key
        /\ last' = [op |-> "main", stdout |-> m.stdout, exit |-> m.exit,
                    events |-> m.events]
        /\ UNCHANGED clients

Next ==
    \/ \E api_key \in ApiKeys, model_name \in ModelNames, genai \in SdkOutcomes :
          Construct(api_key, model_name, genai)
    \/ \E client \in clients, prompt \in Prompts,
          generation_config \in GenerationConfigs,
          safety_settings \in SafetySettings :
          GenerateContent(client, prompt, generation_config, safety_settings)
    \/ \E genai \in SdkOutcomes : Main(genai)

Spec == Init /\ [][Next]_vars

\* ------------------------------------------------------------------- claims

\* What the stub does with the prompt of the last generate_content call.
LastResponse == StubModel[last.prompt]

\* The exception the stub raised in the last generate_content call: NoCause
\* when no step raised.
LastRaised ==
    IF LastResponse.call # None
    THEN [type |-> LastResponse.call, msg |-> "generate_content failed"]
    ELSE IF LastResponse.status # None
    THEN [type |-> LastResponse.status, msg |-> "raise_for_status failed"]
    ELSE IF LastResponse.text_raises # None
    THEN [type |-> LastResponse.text_raises, msg |-> "text failed"]
    ELSE NoCause

\* C1: a construction with an empty or None credential raises ValueError
\* (InvalidCredential), returns no facade, makes no SDK call (neither
\* configure nor GenerativeModel), and leaves the environment, the SDK's key
\* and the facades exactly as they were.
C1_EmptyCredentialRejected ==
    [][(last'.op = "init" /\ last'.api_key \in {None, ""})
         => /\ last'.exc.type = "ValueError"
            /\ last'.self = NoClient
            /\ last'.events = <<>>
            /\ os_environ' = os_environ
            /\ genai_key' = genai_key
            /\ clients' = clients]_vars

\* C1's case: an empty credential was rejected while a key was configured.
C1_Witness ==
    /\ last.op = "init" /\ last.api_key = "" /\ last.exc.type = "ValueError"
    /\ os_environ.GOOGLE_API_KEY = "key-A" /\ genai_key = "key-A"

\* C2: a construction with a non-empty credential returns a facade holding
\* the model handle unless GenerativeModel raises, and then raises
\* GeminiAPIError (ModelInitializationError) whose cause is that exception,
\* returning no facade.
C2_SucceedsUnlessModelFails ==
    (last.op = "init" /\ Truthy(last.api_key))
      => IF last.genai.GenerativeModel = None
         THEN /\ last.exc = NoExc
              /\ last.self = [api_key |-> last.api_key, model |-> last.model_name]
              /\ last.self \in clients
         ELSE /\ last.exc.type = "GeminiAPIError"
              /\ last.exc.cause.type = last.genai.GenerativeModel
              /\ last.self = NoClient

\* C3: whatever the SDK raises, in a construction or in generate_content, the
\* caller sees only ValueError (InvalidCredential) or GeminiAPIError
\* (ModelInitializationError, ContentGenerationError) wrapping it: never the
\* SDK's own exception.
C3_NoRawVendorException ==
    (last.op \in {"init", "generate"})
      => /\ last.exc.type \in {None, "ValueError", "GeminiAPIError"}
         /\ last.exc.type = "GeminiAPIError" => last.exc.cause.type \in VendorErrors

\* C4: when the delegated call, the status check or the reading of the text
\* raises, generate_content raises GeminiAPIError whose cause is that
\* exception and returns nothing; GeminiAPIError is the only exception it
\* ever raises.
C4_FailuresWrapped ==
    last.op = "generate"
      => /\ last.exc.type \in {None, "GeminiAPIError"}
         /\ LastRaised # NoCause
              => /\ last.exc.type = "GeminiAPIError"
                 /\ last.exc.cause = LastRaised
                 /\ last.value = None

\* C4's case: the status check raised an unexpected (non-provider) exception.
C4_Witness ==
    /\ last.op = "generate"
    /\ LastResponse.status = "AttributeError"
    /\ last.exc.type = "GeminiAPIError"
    /\ last.exc.cause.type = "AttributeError"

\* C5: when the stub's call succeeds with a non-empty text, generate_content
\* returns exactly that text, and the stub received the prompt, the
\* generation options and the safety options as they were passed.
C5_TextReturnedUnchanged ==
    (last.op = "generate" /\ LastRaised = NoCause /\ Truthy(LastResponse.text))
      => /\ last.exc = NoExc
         /\ last.value = LastResponse.text
         /\ last.received
              = <<last.prompt, last.generation_config, last.safety_settings>>

\* C5's case: a poem was returned for a call with both options given.
C5_Witness ==
    /\ last.op = "generate" /\ last.prompt = CatPrompt
    /\ last.generation_config # None /\ last.safety_settings # None
    /\ last.value = "Soft paws at midnight."

\* C6: when the stub's call succeeds with an empty or absent text,
\* generate_content returns the sentinel and does not raise; the sentinel is
\* returned only then, or when the stub's own text is the sentinel.
C6_SentinelForEmptyText ==
    last.op = "generate"
      => /\ (LastRaised = NoCause /\ LastResponse.text \in {None, ""})
              => (last.exc = NoExc /\ last.value = "No content generated.")
         /\ last.value = "No content generated."
              => /\ LastRaised = NoCause
                 /\ LastResponse.text \in {None, "", "No content generated."}

\* C6's case: the empty text of the Hamlet prompt became the sentinel.
C6_Witness ==
    /\ last.op = "generate" /\ last.prompt = HamletPrompt
    /\ LastResponse.text = "" /\ last.value = Sentinel /\ last.exc = NoExc

\* C7: response.text is read only after raise_for_status was called, and
\* when raise_for_status raises the text is never read and the call raises:
\* it returns no string.
C7_StatusBeforeContent ==
    last.op = "generate"
      => /\ \A j \in 1..Len(last.events) :
                last.events[j] = "text"
                  => \E i \in 1..(j - 1) : last.events[i] = "raise_for_status"
         /\ (LastResponse.call = None /\ LastResponse.status # None)
              => /\ \A j \in 1..Len(last.events) : last.events[j] # "text"
                 /\ last.exc # NoExc
                 /\ last.value = None

\* C7's case: the status check failed.
C7_Witness ==
    /\ last.op = "generate" /\ LastResponse.status = "GoogleAPIError"
    /\ last.events = <<"generate_content", "raise_for_status">>
    /\ last.exc.type = "GeminiAPIError"

\* A facade as constructed, for comparison.
ReferenceFacade == [api_key |-> "key-A", model |-> DefaultModel]

\* C8: no step changes a facade once built; generate_content changes nothing
\* at all (facades, environment, SDK key); and its outcome is the outcome of
\* the same call on a freshly constructed facade, so it depends on the
\* arguments alone and not on the calls made before.
C8_GenerateIsStateless ==
    [][/\ clients \subseteq clients'
       /\ last'.op = "generate"
            => /\ clients' = clients
               /\ os_environ' = os_environ
               /\ genai_key' = genai_key
               /\ LET fresh == generate_content(ReferenceFacade, last'.prompt,
                                                last'.generation_config,
                                                last'.safety_settings, StubModel)
                  IN  last'.value = fresh.value /\ last'.exc = fresh.exc]_vars

\* C8's case: a call failed, and the facade it was made on is still one of
\* the two facades alive, as it was constructed.
C8_Witness ==
    /\ last.op = "generate" /\ last.exc # NoExc
    /\ last.self \in clients
    /\ Cardinality(clients) = 2

\* C9: run with GEMINI_API_KEY absent or empty, the script prints the
\* diagnostic, makes no SDK call, and ends with a non-zero exit status.
C9_MissingKeyExitsNonZero ==
    (last.op = "main" /\ ~Truthy(os_environ.GEMINI_API_KEY))
      => /\ last.stdout = <<MissingKeyDiagnostic>>
         /\ last.events = <<>>
         /\ last.exit # 0

\* The credential a step's construction attempt passes: None when the step
\* is no construction attempt.
AttemptedKey(l, env) ==
    IF l.op = "init" THEN l.api_key
    ELSE IF l.op = "main" THEN env.GEMINI_API_KEY
    ELSE None

====
